---- MODULE Spec2Model ----
(***************************************************************************)
(* A model of mbox-cli-viewer: the mbox segmenter and the SQLite indexer   *)
(* of create_index.py and the query session of search_index.py.            *)
(*                                                                         *)
(* The archive is a sequence of bytes.  Bytes are one-character strings.   *)
(* The header/MIME decoder is an external library; the model's archive     *)
(* alphabet gives the bytes a meaning for it:                              *)
(*   "a"       a Message-ID header with the value a                        *)
(*   "b"       a Message-ID header whose value is the text missing-id-7    *)
(*   "!"       header text on which the decoder raises                      *)
(*   "?"       header text the store refuses to bind (the INSERT raises)   *)
(* Every byte of a message is part of its text content.                    *)
(***************************************************************************)
EXTENDS Integers, Sequences, FiniteSets, TLC

\* ---------------------------------------------------------------- bounds
MaxLines == 3
MaxRuns == 2
MaxResults == 21

\* ------------------------------------------------------------ the archive
NL == "\n"
Marker == <<"F", "r", "o", "m", " ">>

Prefixes == {<<>>, Marker}
Payloads == {<<>>, <<"a">>, <<"b">>, <<"!">>, <<"?">>, <<"x">> \o Marker}
LineShapes == {p \o q \o <<NL>> : p \in Prefixes, q \in Payloads}
LastShapes == LineShapes \cup ({p \o q : p \in Prefixes, q \in Payloads} \ {<<>>})

RECURSIVE Join(_)
\* b''.join(lines)
Join(lines) ==
  IF lines = <<>> THEN <<>> ELSE Head(lines) \o Join(Tail(lines))

\* the archives of at most MaxLines lines; the last line may lack its newline
Files ==
  {<<>>} \cup
  UNION {{Join(body) \o last : body \in [1..(k - 1) -> LineShapes], last \in LastShapes}
         : k \in 1..MaxLines}

Min(a, b) == IF a < b THEN a ELSE b
Max(a, b) == IF a > b THEN a ELSE b

\* ---------------------------------------------------------- the segmenter
RECURSIVE LineEnd(_, _)
\* the stream position after the line that starts at position pos (pos < Len(file))
LineEnd(file, pos) ==
  IF pos + 1 >= Len(file) THEN Len(file)
  ELSE IF file[pos + 1] = NL THEN pos + 1
  ELSE LineEnd(file, pos + 1)

\* line.startswith(prefix)
StartsWith(line, prefix) ==
  /\ Len(line) >= Len(prefix)
  /\ SubSeq(line, 1, Len(prefix)) = prefix

\* the generator's frame before its first resumption
GenInit == [pos |-> 0, start_offset |-> 0, message_lines |-> <<>>, finished |-> FALSE]

NoYield == [some |-> FALSE, start_offset |-> 0, end_offset |-> 0, bytes |-> <<>>]

\* (mutant) the closing message is given the marker line too
ClosingEndOffsetAtPos(current_pos, line) == current_pos

\* end_offset = current_pos - len(line): a closing message ends where the
\* marker line just read begins
ClosingEndOffset(current_pos, line) == current_pos - Len(line)

\* (mutant) start_offset is never advanced
NextStartOffsetKept(end_offset, line) == 0

\* (mutant) the next message is taken to start after its marker line
NextStartOffsetAfterMarker(end_offset, line) == end_offset + Len(line)

\* start_offset = end_offset: the next message starts where the last one ended
NextStartOffset(end_offset, line) == end_offset

RECURSIVE GenNext(_, _)
\* resume the generator: run it to its next yield, or to its end
GenNext(file, g) ==
  IF g.finished THEN [y |-> NoYield, g |-> g]
  ELSE IF g.pos >= Len(file) THEN
    \* the for loop is over: yield the very last message in the file
    IF g.message_lines # <<>>
    THEN [y |-> [some |-> TRUE, start_offset |-> g.start_offset,
                 end_offset |-> g.pos, bytes |-> Join(g.message_lines)],
          g |-> [g EXCEPT !.finished = TRUE]]
    ELSE [y |-> NoYield, g |-> [g EXCEPT !.finished = TRUE]]
  ELSE
    LET current_pos == LineEnd(file, g.pos)
        line == SubSeq(file, g.pos + 1, current_pos)
    IN IF StartsWith(line, Marker) /\ g.message_lines # <<>>
       THEN LET end_offset == ClosingEndOffset(current_pos, line)
            IN [y |-> [some |-> TRUE, start_offset |-> g.start_offset,
                       end_offset |-> end_offset, bytes |-> Join(g.message_lines)],
                g |-> [g EXCEPT !.pos = current_pos,
                                !.start_offset = NextStartOffset(end_offset, line),
                                !.message_lines = <<line>>]]
       ELSE GenNext(file, [g EXCEPT !.pos = current_pos,
                                    !.message_lines = Append(g.message_lines, line)])

\* ------------------------------------------- the decoder (email package)
Contains(bytes, c) == \E i \in 1..Len(bytes) : bytes[i] = c

\* parser.parsebytes / message.get raise on this message
ParseRaises(bytes) == Contains(bytes, "!")

\* the bytes that stand for a Message-ID header, and the header's value
IdBytes == {"a", "b"}
HeaderValue(c) == IF c = "b" THEN <<"missing-id-", "7">> ELSE <<c>>

\* message.get('Message-ID'): the header's value, <<>> when the header is absent
HeaderMessageId(bytes) ==
  IF \E i \in 1..Len(bytes) : bytes[i] \in IdBytes
  THEN LET i == CHOOSE i \in 1..Len(bytes) :
                  /\ bytes[i] \in IdBytes
                  /\ \A j \in 1..(i - 1) : bytes[j] \notin IdBytes
       IN HeaderValue(bytes[i])
  ELSE <<>>

DigitChars == <<"0", "1", "2", "3", "4", "5", "6", "7", "8", "9">>

RECURSIVE Digits(_)
\* the decimal digits of n, as f'{n}' formats it
Digits(n) ==
  IF n < 10 THEN <<DigitChars[n + 1]>>
  ELSE Digits(n \div 10) \o <<DigitChars[(n % 10) + 1]>>

\* message.get('Message-ID', f'missing-id-{start_offset}')
MsgIdOf(bytes, start_offset) ==
  IF HeaderMessageId(bytes) # <<>> THEN HeaderMessageId(bytes)
  ELSE <<"missing-id-">> \o Digits(start_offset)

\* the archive alphabet has no From, Subject or Date header: the defaults
SenderOf(bytes) == "No Sender"
SubjectOf(bytes) == "No Subject"
DateOf(bytes) == "No Date"

\* get_email_text_content: all the text of the message
TextContent(bytes) == bytes

\* cur.execute(INSERT ...) raises when binding this message's values
InsertRaises(bytes) == Contains(bytes, "?")

\* ------------------------------------------------------------- the store
\* a connection: the tables as this connection sees them, and
\* sqlite3_last_insert_rowid, which is 0 on a new connection
Connect(emails, fts) == [emails |-> emails, fts |-> fts, lastrowid |-> 0]

HasMessageId(emails, message_id) ==
  \E i \in 1..Len(emails) : emails[i].message_id = message_id

\* the rowid a new row gets
NextRowid(emails) == IF emails = <<>> THEN 1 ELSE emails[Len(emails)].id + 1

\* (mutant) a plain INSERT into a table without the UNIQUE constraint
InsertAlways(c, row) ==
  [c EXCEPT !.emails = Append(c.emails, [row EXCEPT !.id = NextRowid(c.emails)]),
            !.lastrowid = NextRowid(c.emails)]

\* (mutant) on a duplicate message_id the stored row takes the new values
InsertOrUpdate(c, row) ==
  IF HasMessageId(c.emails, row.message_id)
  THEN [c EXCEPT !.emails =
          [i \in 1..Len(c.emails) |->
             IF c.emails[i].message_id = row.message_id
             THEN [row EXCEPT !.id = c.emails[i].id] ELSE c.emails[i]]]
  ELSE InsertAlways(c, row)

\* INSERT OR IGNORE INTO emails ...; last_id = cur.lastrowid.
\* A row whose message_id is already there is ignored, and then
\* cur.lastrowid still is the rowid of the connection's last successful insert.
InsertOrIgnore(c, row) ==
  IF HasMessageId(c.emails, row.message_id) THEN c
  ELSE LET id == NextRowid(c.emails)
       IN [c EXCEPT !.emails = Append(c.emails, [row EXCEPT !.id = id]),
                    !.lastrowid = id]

\* if last_id > 0: INSERT INTO email_fts (rowid, sender, subject, body)
InsertFts(c, sender, subject, body) ==
  IF c.lastrowid > 0
  THEN [c EXCEPT !.fts = Append(c.fts, [rowid |-> c.lastrowid, sender |-> sender,
                                        subject |-> subject, body |-> body])]
  ELSE c

\* the body of the indexing loop for one yielded message
LoopBody(c, y) ==
  IF ParseRaises(y.bytes) THEN [conn |-> c, outcome |-> "fatal"]
  ELSE IF InsertRaises(y.bytes) THEN [conn |-> c, outcome |-> "logged"]
  ELSE LET row == [id |-> 0, message_id |-> MsgIdOf(y.bytes, y.start_offset),
                   sender |-> SenderOf(y.bytes), subject |-> SubjectOf(y.bytes),
                   date |-> DateOf(y.bytes),
                   start_offset |-> y.start_offset, end_offset |-> y.end_offset]
       IN [conn |-> InsertFts(InsertOrIgnore(c, row), SenderOf(y.bytes),
                              SubjectOf(y.bytes), TextContent(y.bytes)),
           outcome |-> "ok"]

\* -------------------------------------------------------------- the state
VARIABLES
  archiveExists,    \* the archive file is there
  archive,          \* its bytes
  storeExists,      \* the index file is there
  dbEmails,         \* committed rows of table emails, in id order
  dbFts,            \* committed entries of the full-text index, in write order
  ipc,              \* create_index: "idle", "loop", "done", "exit1", "interrupted"
  conn,             \* create_index's connection
  gen,              \* the frame of iterate_mbox_messages
  processed_count,
  logged,           \* offsets printed by "Could not process email at offset"
  yielded,          \* the triples the generator yielded in this run
  runs,             \* indexing runs started
  completed,        \* indexing runs that reached the commit
  qpc,              \* search_and_display: "none", "exit1", "nomatch", "listing", "closed"
  search_term,
  sanitized_term,   \* the string given to MATCH
  results,          \* the ids of the fetched rows, in result order
  current_page,
  current_page_size,
  lastCmd,          \* the input the loop handled last
  printed,          \* what that input made the session print
  displayed,        \* the record id and the bytes display_email was given
  handles           \* which handles are open: the indexer's connection, the
                    \* generator's archive file, the session's connection

ivars == <<ipc, conn, gen, processed_count, logged, yielded, runs, completed>>
svars == <<storeExists, dbEmails, dbFts>>
avars == <<archiveExists, archive>>
qvars == <<qpc, search_term, sanitized_term, results, current_page,
           current_page_size, lastCmd, printed, displayed>>
vars == <<avars, svars, ivars, qvars, handles>>

NoHandles == [iconn |-> FALSE, mbox |-> FALSE, qconn |-> FALSE]

NoDisplay == [id |-> 0, bytes |-> <<>>]

\* an input line: "q", "n", "p", "+", "-", a number ("select", k), other "text",
\* or an "interrupt" at the prompt
Cmd(c, k) == [c |-> c, k |-> k]

\* nothing indexed, no session
Fresh ==
  /\ storeExists = FALSE
  /\ dbEmails = <<>>
  /\ dbFts = <<>>
  /\ ipc = "idle"
  /\ conn = Connect(<<>>, <<>>)
  /\ gen = GenInit
  /\ processed_count = 0
  /\ logged = <<>>
  /\ yielded = <<>>
  /\ runs = 0
  /\ completed = 0
  /\ qpc = "none"
  /\ search_term = <<>>
  /\ sanitized_term = <<>>
  /\ handles = NoHandles
  /\ results = <<>>
  /\ current_page = 0
  /\ current_page_size = 0
  /\ lastCmd = Cmd("", 0)
  /\ printed = ""
  /\ displayed = NoDisplay

Init ==
  /\ archive \in Files
  /\ archiveExists \in BOOLEAN
  /\ (~archiveExists => archive = <<>>)
  /\ Fresh

\* create_index up to the loop: connect and create the tables.  The DDL
\* statements run in autocommit mode, so the store file exists from here on.
\* (Indexing and querying never run at once; the runs explored are the ones
\* before the query session, which changes neither the store nor the archive.)
IndexStart ==
  /\ ipc # "loop"
  /\ qpc = "none"
  /\ runs < MaxRuns
  /\ runs' = runs + 1
  /\ storeExists' = TRUE
  /\ conn' = Connect(dbEmails, dbFts)
  /\ gen' = GenInit
  /\ processed_count' = 0
  /\ logged' = <<>>
  /\ yielded' = <<>>
  /\ ipc' = "loop"
  /\ handles' = [handles EXCEPT !.iconn = TRUE, !.mbox = FALSE]
  /\ UNCHANGED <<avars, dbEmails, dbFts, completed, qvars>>

\* the generator's open() raises FileNotFoundError: sys.exit(1), no commit
IndexArchiveMissing ==
  /\ ipc = "loop"
  /\ ~archiveExists
  /\ ipc' = "exit1"
  /\ UNCHANGED <<avars, svars, conn, gen, processed_count, logged, yielded, runs,
                 completed, qvars, handles>>

\* KeyboardInterrupt during the loop: it is no Exception, so no handler of
\* create_index catches it; the process ends with nothing committed or closed.
\* What the process held is gone with it: the open transaction is rolled back.
IndexInterrupt ==
  /\ ipc = "loop"
  /\ ipc' = "interrupted"
  /\ conn' = Connect(dbEmails, dbFts)
  /\ gen' = GenInit
  /\ processed_count' = 0
  /\ logged' = <<>>
  /\ yielded' = <<>>
  /\ UNCHANGED <<avars, svars, runs, completed, qvars, handles>>

\* (mutant) every iteration commits what it inserted
IndexMessageAutocommit ==
  /\ ipc = "loop"
  /\ archiveExists
  /\ LET n == GenNext(archive, gen)
         r == LoopBody(conn, n.y)
     IN /\ n.y.some
        /\ gen' = n.g
        /\ yielded' = Append(yielded, n.y)
        /\ processed_count' = processed_count + 1
        /\ conn' = r.conn
        /\ dbEmails' = r.conn.emails
        /\ dbFts' = r.conn.fts
        /\ logged' = IF r.outcome = "logged" THEN Append(logged, n.y.start_offset)
                     ELSE logged
        /\ ipc' = IF r.outcome = "fatal" THEN "exit1" ELSE "loop"
  /\ handles' = [handles EXCEPT !.mbox = TRUE]
  /\ UNCHANGED <<avars, storeExists, runs, completed, qvars>>

\* one iteration of the for loop
IndexMessage ==
  /\ ipc = "loop"
  /\ archiveExists
  /\ LET n == GenNext(archive, gen)
         r == LoopBody(conn, n.y)
     IN /\ n.y.some
        /\ gen' = n.g
        /\ yielded' = Append(yielded, n.y)
        /\ processed_count' = processed_count + 1
        /\ conn' = r.conn
        /\ logged' = IF r.outcome = "logged" THEN Append(logged, n.y.start_offset)
                     ELSE logged
        /\ ipc' = IF r.outcome = "fatal" THEN "exit1" ELSE "loop"
  /\ handles' = [handles EXCEPT !.mbox = TRUE]
  /\ UNCHANGED <<avars, svars, runs, completed, qvars>>

\* the generator is exhausted: commit, close, report
IndexFinish ==
  /\ ipc = "loop"
  /\ archiveExists
  /\ LET n == GenNext(archive, gen)
     IN /\ ~n.y.some
        /\ gen' = n.g
  /\ dbEmails' = conn.emails
  /\ dbFts' = conn.fts
  /\ ipc' = "done"
  /\ completed' = completed + 1
  /\ handles' = [handles EXCEPT !.iconn = FALSE, !.mbox = FALSE]
  /\ UNCHANGED <<avars, storeExists, conn, processed_count, logged, yielded, runs, qvars>>

\* ------------------------------------------------------ the query session
DEFAULT_PAGE_SIZE == 20
PageSizeStep == 10
MaxPageSize == 100
MinPageSize == 10

Terms == {<<"a">>, <<"x">>}

\* the phrase occurs in the text
Occurs(term, text) ==
  \E i \in 1..(Len(text) - Len(term) + 1) : SubSeq(text, i, i + Len(term) - 1) = term

Quote == "\""

RECURSIVE DoubleQuotes(_)
\* search_term.replace('"', '""')
DoubleQuotes(term) ==
  IF term = <<>> THEN <<>>
  ELSE (IF Head(term) = Quote THEN <<Quote, Quote>> ELSE <<Head(term)>>)
       \o DoubleQuotes(Tail(term))

\* (mutant) the term is quoted without doubling its quote characters
SanitizeNoEscape(term) == <<Quote>> \o term \o <<Quote>>

\* sanitized_term = '"' + search_term.replace('"', '""') + '"'
Sanitize(term) == <<Quote>> \o DoubleQuotes(term) \o <<Quote>>

RECURSIVE UnquoteFrom(_, _)
\* the engine reads a quoted string from position i on: "" is a quote
\* character, a single quote ends the string, and nothing may follow it
UnquoteFrom(s, i) ==
  IF i > Len(s) THEN [ok |-> FALSE, phrase |-> <<>>]
  ELSE IF s[i] = Quote
  THEN IF i + 1 <= Len(s) /\ s[i + 1] = Quote
       THEN LET r == UnquoteFrom(s, i + 2)
            IN [ok |-> r.ok, phrase |-> <<Quote>> \o r.phrase]
       ELSE [ok |-> i = Len(s), phrase |-> <<>>]
  ELSE LET r == UnquoteFrom(s, i + 1)
       IN [ok |-> r.ok, phrase |-> <<s[i]>> \o r.phrase]

\* the engine's reading of a MATCH argument that is one quoted phrase
ParsePhrase(s) ==
  IF Len(s) >= 2 /\ s[1] = Quote THEN UnquoteFrom(s, 2)
  ELSE [ok |-> FALSE, phrase |-> <<>>]

\* the engine's tokenizer drops punctuation
Punctuation == {Quote, "*"}
IsTokenChar(c) == c \notin Punctuation

\* email_fts MATCH ?: the rowids with an entry whose text has the phrase; a
\* phrase without a token matches nothing.
\* (The placeholder sender and subject hold no byte of the archive alphabet.)
MatchingRowids(fts, phrase) ==
  LET tokens == SelectSeq(phrase, IsTokenChar)
  IN IF tokens = <<>> THEN {}
     ELSE {fts[j].rowid : j \in {k \in 1..Len(fts) : Occurs(tokens, fts[k].body)}}

RECURSIVE JoinRows(_, _)
\* SELECT emails.id ... FROM emails JOIN email_fts ON emails.id = email_fts.rowid
\* WHERE email_fts MATCH ? ORDER BY emails.date DESC (every date is the same)
JoinRows(emails, rowids) ==
  IF emails = <<>> THEN <<>>
  ELSE (IF Head(emails).id \in rowids THEN <<Head(emails).id>> ELSE <<>>)
       \o JoinRows(Tail(emails), rowids)

\* math.ceil(len(results) / current_page_size)
TotalPages(n, page_size) == (n + page_size - 1) \div page_size

\* (mutant) the page is not clamped again after the page size changed
ClampPageNot(page, total_pages) == page

\* current_page = min(current_page, total_pages - 1)
ClampPage(page, total_pages) == Min(page, total_pages - 1)

\* results[start_index : start_index + current_page_size], as display indexes
PageEntries(n, page, page_size) ==
  {k \in 1..n : page * page_size < k /\ k <= page * page_size + page_size}

\* f.seek(start_offset); f.read(size)
ReadRange(file, start_offset, size) ==
  SubSeq(file, start_offset + 1, Min(start_offset + size, Len(file)))

\* view_email: what it prints and what it hands to display_email
ViewEmail(row_id) ==
  LET rows == {i \in 1..Len(dbEmails) : dbEmails[i].id = row_id}
  IN IF rows = {} THEN [printed |-> "not_found", displayed |-> NoDisplay]
     ELSE LET res == dbEmails[CHOOSE i \in rows : TRUE]
              size == res.end_offset - res.start_offset
              email_bytes == ReadRange(archive, res.start_offset, size)
          IN IF ~archiveExists
             THEN [printed |-> "file_not_found", displayed |-> NoDisplay]
             ELSE IF ParseRaises(email_bytes)
             THEN [printed |-> "read_error", displayed |-> NoDisplay]
             ELSE [printed |-> "message",
                   displayed |-> [id |-> row_id, bytes |-> email_bytes]]

\* search_and_display up to the first prompt, for a search term of the set.
\* (The sessions explored are the ones before and after the first indexing
\* run; a session reads the store and the archive, not how often they were
\* indexed.)
Search(terms) ==
  /\ qpc = "none"
  /\ ipc # "loop"
  /\ runs <= 1
  /\ \E term \in terms :
       /\ search_term' = term
       /\ IF ~storeExists
          THEN /\ qpc' = "exit1"
               /\ UNCHANGED <<sanitized_term, results, current_page,
                              current_page_size, handles>>
          ELSE LET parsed == ParsePhrase(Sanitize(term))
                   rows == JoinRows(dbEmails, MatchingRowids(dbFts, parsed.phrase))
               IN /\ sanitized_term' = Sanitize(term)
                  /\ IF ~parsed.ok
                     THEN \* the engine rejects the MATCH argument: cur.execute raises
                          /\ qpc' = "crashed"
                          /\ handles' = [handles EXCEPT !.qconn = TRUE]
                          /\ UNCHANGED <<results, current_page, current_page_size>>
                     ELSE /\ results' = rows
                          /\ IF rows = <<>>
                             THEN /\ qpc' = "nomatch"
                                  /\ handles' = [handles EXCEPT !.qconn = FALSE]
                                  /\ UNCHANGED <<current_page, current_page_size>>
                             ELSE /\ qpc' = "listing"
                                  /\ handles' = [handles EXCEPT !.qconn = TRUE]
                                  /\ current_page_size' = DEFAULT_PAGE_SIZE
                                  /\ current_page' =
                                       ClampPage(0, TotalPages(Len(rows),
                                                               DEFAULT_PAGE_SIZE))
  /\ UNCHANGED <<avars, svars, ivars, lastCmd, printed, displayed>>

SearchStart == Search(Terms)

\* one pass of the loop: handle the input, then render the listing again
Handled(cmd, page, page_size, text, shown) ==
  /\ lastCmd' = cmd
  /\ current_page_size' = page_size
  /\ current_page' = ClampPage(page, TotalPages(Len(results), page_size))
  /\ printed' = text
  /\ displayed' = shown
  /\ UNCHANGED <<avars, svars, ivars, qpc, search_term, sanitized_term, results,
                 handles>>

\* the loop is left: conn.close()
SessionEnd(cmd, text) ==
  /\ qpc = "listing"
  /\ qpc' = "closed"
  /\ lastCmd' = cmd
  /\ printed' = text
  /\ displayed' = NoDisplay
  /\ handles' = [handles EXCEPT !.qconn = FALSE]
  /\ UNCHANGED <<avars, svars, ivars, search_term, sanitized_term, results,
                 current_page, current_page_size>>

\* (mutant) 'n' on the last page wraps to the first page
CmdNextWrap ==
  /\ qpc = "listing"
  /\ IF current_page < TotalPages(Len(results), current_page_size) - 1
     THEN Handled(Cmd("n", 0), current_page + 1, current_page_size, "", NoDisplay)
     ELSE Handled(Cmd("n", 0), 0, current_page_size, "", NoDisplay)

CmdNext ==
  /\ qpc = "listing"
  /\ IF current_page < TotalPages(Len(results), current_page_size) - 1
     THEN Handled(Cmd("n", 0), current_page + 1, current_page_size, "", NoDisplay)
     ELSE Handled(Cmd("n", 0), current_page, current_page_size, "last_page", NoDisplay)

CmdPrev ==
  /\ qpc = "listing"
  /\ IF current_page > 0
     THEN Handled(Cmd("p", 0), current_page - 1, current_page_size, "", NoDisplay)
     ELSE Handled(Cmd("p", 0), current_page, current_page_size, "first_page", NoDisplay)

CmdGrow ==
  /\ qpc = "listing"
  /\ Handled(Cmd("+", 0), current_page, Min(MaxPageSize, current_page_size + PageSizeStep),
             "increased", NoDisplay)

CmdShrink ==
  /\ qpc = "listing"
  /\ Handled(Cmd("-", 0), current_page, Max(MinPageSize, current_page_size - PageSizeStep),
             "decreased", NoDisplay)

\* (mutant) the number is taken as a position on the displayed page
CmdSelectOnPage ==
  /\ qpc = "listing"
  /\ \E k \in 0..(Len(results) + 1) :
       LET choice_index == current_page * current_page_size + k - 1
       IN IF 0 < k /\ choice_index < Len(results)
          THEN LET v == ViewEmail(results[choice_index + 1])
               IN Handled(Cmd("select", k), current_page, current_page_size,
                          v.printed, v.displayed)
          ELSE Handled(Cmd("select", k), current_page, current_page_size,
                       "invalid_number", NoDisplay)

\* a number was entered
CmdSelect ==
  /\ qpc = "listing"
  /\ \E k \in 0..(Len(results) + 1) :
       LET choice_index == k - 1
       IN IF 0 <= choice_index /\ choice_index < Len(results)
          THEN LET v == ViewEmail(results[choice_index + 1])
               IN Handled(Cmd("select", k), current_page, current_page_size,
                          v.printed, v.displayed)
          ELSE Handled(Cmd("select", k), current_page, current_page_size,
                       "invalid_number", NoDisplay)

\* (mutant) the ValueError of int(choice) is not caught and ends the loop
CmdInvalidCrash == SessionEnd(Cmd("text", 0), "traceback")

\* int(choice) raises ValueError
CmdInvalid ==
  /\ qpc = "listing"
  /\ Handled(Cmd("text", 0), current_page, current_page_size, "invalid_input", NoDisplay)

CmdQuit == SessionEnd(Cmd("q", 0), "")

\* KeyboardInterrupt at the prompt
CmdInterrupt == SessionEnd(Cmd("interrupt", 0), "exiting")

\* -------------------------------------------- the world during a session
TruncatedSizes == {3, 10}

\* the archive and the store still are as the last indexing run left them
\* (a session sees at most one change of the world)
WorldUnchanged ==
  /\ archiveExists
  /\ Len(archive) = gen.pos
  /\ dbEmails = conn.emails

\* the archive file is moved away
ArchiveMoved ==
  /\ qpc = "listing"
  /\ WorldUnchanged
  /\ archiveExists' = FALSE
  /\ UNCHANGED <<archive, svars, ivars, qvars, handles>>

\* the archive file shrinks
ArchiveShrunk ==
  /\ qpc = "listing"
  /\ WorldUnchanged
  /\ \E n \in TruncatedSizes :
       /\ n < Len(archive)
       /\ archive' = SubSeq(archive, 1, n)
  /\ UNCHANGED <<archiveExists, svars, ivars, qvars, handles>>

RECURSIVE WithoutId(_, _)
WithoutId(emails, id) ==
  IF emails = <<>> THEN <<>>
  ELSE (IF Head(emails).id = id THEN <<>> ELSE <<Head(emails)>>)
       \o WithoutId(Tail(emails), id)

\* the record of the first result is deleted from the store by someone else
RecordDeleted ==
  /\ qpc = "listing"
  /\ WorldUnchanged
  /\ \E i \in 1..Len(dbEmails) : dbEmails[i].id = results[1]
  /\ dbEmails' = WithoutId(dbEmails, results[1])
  /\ UNCHANGED <<avars, storeExists, dbFts, ivars, qvars, handles>>

Next ==
  \/ IndexStart
  \/ IndexArchiveMissing
  \/ IndexMessage
  \/ IndexFinish
  \/ IndexInterrupt
  \/ SearchStart

Spec == Init /\ [][Next]_vars

\* ---------------------------------- a session over an archive of n messages
PageMessage == Marker \o <<NL, "x", NL>>

RECURSIVE Repeat(_, _)
Repeat(bytes, n) == IF n = 0 THEN <<>> ELSE bytes \o Repeat(bytes, n - 1)

InitPage ==
  /\ \/ /\ archiveExists = TRUE
        /\ archive \in {Repeat(PageMessage, n) : n \in 1..MaxResults}
     \/ /\ archiveExists = FALSE
        /\ archive = <<>>
  /\ Fresh

NextPage ==
  \/ Next
  \/ CmdNext
  \/ CmdPrev
  \/ CmdGrow
  \/ CmdShrink
  \/ CmdSelect
  \/ CmdInvalid
  \/ CmdQuit
  \/ CmdInterrupt
  \/ ArchiveMoved
  \/ ArchiveShrunk
  \/ RecordDeleted

SpecPage == InitPage /\ [][NextPage]_vars

\* ------------------------------------------- a query with any search term
MaxTermLen == 3

\* the query alphabet: a word character, the quote character, the engine's
\* prefix operator, and the engine's operator word OR
QueryChars == {"x", Quote, "*", "OR"}

QueryTerms == UNION {[1..n -> QueryChars] : n \in 0..MaxTermLen}

SearchAny == Search(QueryTerms)

InitQuery ==
  /\ \/ /\ archiveExists = TRUE
        /\ archive \in {Repeat(PageMessage, n) : n \in 1..2}
     \/ /\ archiveExists = FALSE
        /\ archive = <<>>
  /\ Fresh

NextQuery ==
  \/ IndexStart
  \/ IndexArchiveMissing
  \/ IndexMessage
  \/ IndexFinish
  \/ IndexInterrupt
  \/ SearchAny

SpecQuery == InitQuery /\ [][NextQuery]_vars

\* ================================================================ claims
\* --- the indexer and the segmenter (Spec)

FtsEntriesOf(fts, id) == {j \in 1..Len(fts) : fts[j].rowid = id}

\* the text of the message a record points at
OwnBody(r) ==
  TextContent(ReadRange(archive, r.start_offset, r.end_offset - r.start_offset))

\* C1: after an indexing run every record has exactly one full-text entry,
\* carrying the record's id and its own sender, subject and body, and no
\* full-text entry exists that a newly inserted record did not cause (a
\* message skipped as a duplicate writes none).
C1_FtsIffInserted ==
  ipc = "done" =>
    /\ \A i \in 1..Len(dbEmails) :
         LET r == dbEmails[i]
             es == FtsEntriesOf(dbFts, r.id)
         IN /\ Cardinality(es) = 1
            /\ \A j \in es : /\ dbFts[j].sender = r.sender
                             /\ dbFts[j].subject = r.subject
                             /\ dbFts[j].body = OwnBody(r)
    /\ \A j \in 1..Len(dbFts) : \E i \in 1..Len(dbEmails) : dbEmails[i].id = dbFts[j].rowid
    /\ Len(dbFts) = Len(dbEmails)

\* a file that is empty or whose first line is a marker line
ValidArchive(file) ==
  \/ file = <<>>
  \/ StartsWith(SubSeq(file, 1, LineEnd(file, 0)), Marker)

\* C2: for a valid archive the yielded ranges, in yield order, start at 0,
\* each start where the previous one ended, and, once the generator is
\* exhausted, end at the file size (nothing is yielded only for the empty file).
C2_RangesCoverFile ==
  (archiveExists /\ ValidArchive(archive)) =>
    /\ (yielded # <<>> => yielded[1].start_offset = 0)
    /\ \A i \in 2..Len(yielded) : yielded[i].start_offset = yielded[i - 1].end_offset
    /\ (ipc = "done" =>
          IF yielded = <<>> THEN Len(archive) = 0
          ELSE yielded[Len(yielded)].end_offset = Len(archive))

C2_Witness ==
  /\ ipc = "done"
  /\ ValidArchive(archive)
  /\ Len(yielded) = 3

\* C3: seeking to a yielded start_offset and reading end_offset - start_offset
\* bytes gives exactly the yielded bytes; the marker line that closed a message
\* is the beginning of the next message's bytes.
C3_ReadBack ==
  archiveExists =>
    \A i \in 1..Len(yielded) :
      /\ ReadRange(archive, yielded[i].start_offset,
                   yielded[i].end_offset - yielded[i].start_offset) = yielded[i].bytes
      /\ (i > 1 => /\ StartsWith(yielded[i].bytes, Marker)
                   /\ ReadRange(archive, yielded[i - 1].end_offset, Len(Marker)) = Marker)

C3_Witness ==
  /\ ipc = "done"
  /\ Len(yielded) = 2
  /\ yielded[1].start_offset < yielded[1].end_offset
  /\ archive[Len(archive)] # NL

\* C4: a message whose processing fails (in the decoder or in the insert) has
\* its start offset logged, and no such failure ends the run: a run ends with
\* exit status 1 only when the archive cannot be opened.
C4_FailureCaught ==
  /\ \A i \in 1..Len(yielded) :
       (ParseRaises(yielded[i].bytes) \/ InsertRaises(yielded[i].bytes)) =>
          \E j \in 1..Len(logged) : logged[j] = yielded[i].start_offset
  /\ (ipc = "exit1" => ~archiveExists)

UniqueMessageIds(emails) ==
  \A i, j \in 1..Len(emails) : emails[i].message_id = emails[j].message_id => i = j

\* C5: a run over the same archive and the store of a completed run commits
\* the same records (same count, same rows), and no message_id ever has more
\* than one row.
C5_SecondRunIdempotent ==
  [][/\ UniqueMessageIds(dbEmails')
     /\ (completed >= 1 /\ ipc = "loop" /\ ipc' = "done") => dbEmails' = dbEmails]_vars

C5_Witness ==
  /\ runs = 2
  /\ completed = 2
  /\ ipc = "done"
  /\ Len(dbEmails) = 2
  /\ processed_count = 3
  /\ \E i \in 1..Len(dbEmails) : dbEmails[i].message_id[1] = "missing-id-"

KeepsRows(old, new) ==
  \A i \in 1..Len(old) : i <= Len(new) /\ new[i] = old[i]

\* C6: a persisted record never changes: every step keeps the committed rows,
\* and every step that continues or completes a run keeps the rows the run has
\* inserted so far (a later message with the same message_id is skipped).
C6_FirstSeenWins ==
  [][/\ KeepsRows(dbEmails, dbEmails')
     /\ (ipc = "loop" /\ ipc' \in {"loop", "done"}) => KeepsRows(conn.emails, conn'.emails)]_vars

C6_Witness ==
  /\ ipc = "done"
  /\ runs = 1
  /\ logged = <<>>
  /\ Len(yielded) = 3
  /\ Len(dbEmails) = 2
  /\ MsgIdOf(yielded[3].bytes, yielded[3].start_offset) = dbEmails[1].message_id

\* C7: with the archive missing the indexer writes nothing to the store: the
\* store file does not come to exist, and a later query run finds no store.
C7_NoStoreWithoutArchive ==
  ~archiveExists => /\ ~storeExists
                    /\ qpc \in {"none", "exit1"}

\* --- the query session (SpecPage)

\* the step handles the number k, entered in the listing state
SelectStep(k) ==
  /\ qpc = "listing"
  /\ lastCmd' = Cmd("select", k)
  /\ UNCHANGED <<avars, svars>>

\* C8: selecting a result whose record is gone prints "not found"; selecting
\* one while the archive is missing or shorter than the record's end_offset
\* prints an I/O error and displays nothing; the session stays in the listing.
C8_ViewErrorsReported ==
  [][\A k \in 1..Len(results) :
       SelectStep(k) =>
         LET rows == {i \in 1..Len(dbEmails) : dbEmails[i].id = results[k]}
         IN /\ qpc' = "listing"
            /\ (rows = {} => printed' = "not_found" /\ displayed' = NoDisplay)
            /\ \A i \in rows :
                 (~archiveExists \/ Len(archive) < dbEmails[i].end_offset) =>
                    /\ printed' \in {"file_not_found", "read_error"}
                    /\ displayed' = NoDisplay]_vars

\* the step handles the input c, entered in the listing state
CmdStep(c) ==
  /\ qpc = "listing"
  /\ qpc' = "listing"
  /\ lastCmd'.c = c
  /\ UNCHANGED <<avars, svars>>

\* C9: every rendered listing has 0 <= current_page <= total_pages - 1 with
\* total_pages = ceil(N / page_size); 'n' below the last page adds one, 'p'
\* above the first page subtracts one; 'n' on the last page and 'p' on the
\* first page keep the page and print the boundary message.
C9_PageMoves ==
  [][LET n == Len(results)
         total_pages == TotalPages(n, current_page_size)
     IN /\ (qpc' = "listing" =>
              LET t == TotalPages(Len(results'), current_page_size')
              IN /\ t * current_page_size' >= Len(results')
                 /\ (t - 1) * current_page_size' < Len(results')
                 /\ 0 <= current_page' /\ current_page' <= t - 1)
        /\ (CmdStep("n") =>
              IF current_page < total_pages - 1
              THEN current_page' = current_page + 1
              ELSE current_page' = current_page /\ printed' = "last_page")
        /\ (CmdStep("p") =>
              IF current_page > 0
              THEN current_page' = current_page - 1
              ELSE current_page' = current_page /\ printed' = "first_page")]_vars

C9_Witness ==
  /\ qpc = "listing"
  /\ lastCmd = Cmd("n", 0)
  /\ printed = "last_page"
  /\ current_page = 2

\* C10: page_size starts at 20 and stays a multiple of 10 within [10, 100];
\* '+' adds 10 capped at 100, '-' subtracts 10 floored at 10; after a change of
\* page_size the rendered page is min(previous page, new total_pages - 1), and
\* it is not empty.
C10_PageSize ==
  [][/\ (qpc # "listing" /\ qpc' = "listing" => current_page_size' = 20)
     /\ (qpc' = "listing" =>
           /\ current_page_size' % 10 = 0
           /\ 10 <= current_page_size' /\ current_page_size' <= 100)
     /\ (CmdStep("+") => current_page_size' = Min(100, current_page_size + 10))
     /\ (CmdStep("-") => current_page_size' = Max(10, current_page_size - 10))
     /\ (qpc = "listing" /\ qpc' = "listing" /\ current_page_size' # current_page_size =>
           LET t == (Len(results) + current_page_size' - 1) \div current_page_size'
           IN /\ current_page' = Min(current_page, t - 1)
              /\ PageEntries(Len(results), current_page', current_page_size') # {})]_vars

C10_Witness ==
  /\ qpc = "listing"
  /\ lastCmd = Cmd("+", 0)
  /\ Len(results) = 21
  /\ current_page_size = 20
  /\ current_page = 1

C20_GlobalSelection ==
  [][\A k \in 0..(Len(results) + 1) :
       SelectStep(k) =>
         IF k \in 1..Len(results)
         THEN WorldUnchanged =>
                /\ printed' = "message"
                /\ displayed'.id = results[k]
                /\ \E i \in 1..Len(dbEmails) :
                     /\ dbEmails[i].id = results[k]
                     /\ displayed'.bytes =
                          ReadRange(archive, dbEmails[i].start_offset,
                                    dbEmails[i].end_offset - dbEmails[i].start_offset)
         ELSE displayed' = NoDisplay]_vars

C20_Witness ==
  /\ qpc = "listing"
  /\ lastCmd.c = "select"
  /\ lastCmd.k \in 1..Len(results)
  /\ lastCmd.k \notin PageEntries(Len(results), current_page, current_page_size)
  /\ current_page = 1
  /\ printed = "message"
  /\ displayed.id = results[lastCmd.k]

\* --- handles, segmenter edge cases, counts and keys (Spec)

\* C12: when the indexer has ended (completion, missing archive, unexpected
\* error, interrupt) its store connection and its archive handle are closed,
\* and when the query session has ended its store connection is closed.
C12_HandlesReleased ==
  /\ (ipc \in {"done", "exit1", "interrupted"} => ~handles.iconn /\ ~handles.mbox)
  /\ (qpc \in {"exit1", "nomatch", "closed", "crashed"} => ~handles.qconn)

\* some line of the file begins with the marker
HasMarkerLine(file) ==
  \E pos \in 0..(Len(file) - 1) :
    /\ (pos = 0 \/ file[pos] = NL)
    /\ StartsWith(SubSeq(file, pos + 1, Len(file)), Marker)

\* C13: for a file without a marker line (the empty file included) the
\* segmenter yields no message.
C13_NoMarkerNoMessage ==
  (archiveExists /\ ~HasMarkerLine(archive)) => yielded = <<>>

\* C15: the total reported on completion is the number of messages of the run
\* that were not skipped for a logged per-message error.
C15_TotalCountsSuccesses ==
  ipc = "done" => processed_count = Len(yielded) - Len(logged)

\* C16: after a first run, every message without a Message-ID header (whose
\* insert did not fail) has its own record, keyed missing-id-<start_offset>.
C16_MissingIdUnique ==
  (ipc = "done" /\ runs = 1) =>
    \A i \in 1..Len(yielded) :
      (HeaderMessageId(yielded[i].bytes) = <<>> /\ ~InsertRaises(yielded[i].bytes)) =>
        \E j \in 1..Len(dbEmails) :
          /\ dbEmails[j].start_offset = yielded[i].start_offset
          /\ dbEmails[j].message_id = <<"missing-id-">> \o Digits(yielded[i].start_offset)

\* C17: in a file with a marker line no yielded message is made of the lines
\* before the first marker line: every yielded message begins with a marker.
C17_FirstMarkerOnlyOpens ==
  (archiveExists /\ HasMarkerLine(archive)) =>
    \A i \in 1..Len(yielded) : StartsWith(yielded[i].bytes, Marker)

\* the rows have start_offset < end_offset
RangesNonEmpty(emails) ==
  \A i \in 1..Len(emails) : emails[i].start_offset < emails[i].end_offset

\* the rows, in start_offset order, each start where the previous one ended,
\* from 0 to size
RangesContiguous(emails, size) ==
  /\ (emails = <<>> => size = 0)
  /\ \A i \in 1..Len(emails) :
       \/ emails[i].start_offset = 0
       \/ \E j \in 1..Len(emails) : emails[j].end_offset = emails[i].start_offset
  /\ \A i \in 1..Len(emails) :
       \/ emails[i].end_offset = size
       \/ \E j \in 1..Len(emails) : emails[j].start_offset = emails[i].end_offset

RangesDisjoint(emails) ==
  \A i, j \in 1..Len(emails) :
    i # j => \/ emails[i].end_offset <= emails[j].start_offset
             \/ emails[j].end_offset <= emails[i].start_offset

\* C18 (as stated): after any completed run, runs with skipped messages
\* included, every record has start_offset < end_offset and the records are
\* non-overlapping and contiguous from 0 to the archive size.
C18_RangesContiguousAlways ==
  ipc = "done" =>
    /\ RangesNonEmpty(dbEmails)
    /\ RangesDisjoint(dbEmails)
    /\ RangesContiguous(dbEmails, Len(archive))

\* C18 (amended): the persisted records always have start_offset < end_offset
\* and pairwise non-overlapping ranges; after a completed run in which every
\* yielded message has a record (none was skipped) they are contiguous from 0
\* to the archive size.
C18_RangesDisjoint ==
  /\ RangesNonEmpty(dbEmails)
  /\ RangesDisjoint(dbEmails)
  /\ (ipc = "done" /\ Len(dbEmails) = Len(yielded)) =>
        RangesContiguous(dbEmails, Len(archive))

C18_Witness ==
  /\ ipc = "done"
  /\ logged = <<>>
  /\ Len(yielded) = 3
  /\ Len(dbEmails) = 2
  /\ dbEmails[2].start_offset > dbEmails[1].end_offset

\* C19: the committed records and full-text entries change only in the commit
\* that completes a run; a run that ends in sys.exit(1) or in an interrupt
\* leaves them as they were when it started.
C19_AllOrNothing ==
  [][/\ (dbEmails' # dbEmails \/ dbFts' # dbFts) => (ipc = "loop" /\ ipc' = "done")
     /\ (ipc = "loop" /\ ipc' \in {"exit1", "interrupted"}) =>
           /\ dbEmails' = dbEmails
           /\ dbFts' = dbFts]_vars

C19_Witness ==
  /\ ipc = "exit1"
  /\ archiveExists
  /\ Len(conn.emails) > Len(dbEmails)
  /\ Len(conn.fts) > Len(dbFts)

\* --- the query string (SpecQuery)

RECURSIVE CountQuotes(_)
CountQuotes(s) ==
  IF s = <<>> THEN 0
  ELSE (IF Head(s) = Quote THEN 1 ELSE 0) + CountQuotes(Tail(s))

\* C14: for every search term the string given to MATCH begins and ends with
\* a quote character, holds the term's characters with every quote character
\* doubled, and the engine reads it as one quoted phrase with nothing after the
\* closing quote: un-escaping it gives the term back.
C14_OneQuotedPhrase ==
  qpc \notin {"none", "exit1"} =>
    LET s == sanitized_term
        inner == SubSeq(s, 2, Len(s) - 1)
        parsed == ParsePhrase(s)
    IN /\ Len(s) >= 2
       /\ s[1] = Quote
       /\ s[Len(s)] = Quote
       /\ Len(inner) = Len(search_term) + CountQuotes(search_term)
       /\ CountQuotes(inner) = 2 * CountQuotes(search_term)
       /\ SelectSeq(inner, LAMBDA c : c # Quote) = SelectSeq(search_term, LAMBDA c : c # Quote)
       /\ parsed.ok
       /\ parsed.phrase = search_term
       /\ qpc # "crashed"

C14_Witness ==
  /\ qpc = "listing"
  /\ search_term = <<Quote, "x", "*">>
  /\ Len(sanitized_term) = 6
  /\ Len(results) = 2

====
